---------------------------- MODULE Spec2Model ----------------------------
(***************************************************************************)
(* Event-Collaboration: the event store, the audit log and the merge       *)
(* engine of EventService (src/src/event/event.service.ts).                *)
(*                                                                         *)
(* An event is a record                                                    *)
(*   [id, title, status, startTime, endTime, creator, invitees, mergedFrom]*)
(* A title is the sequence of its words (the words of the string, which    *)
(* are separated by single spaces); " | " in a merged title is the word    *)
(* "|".  Times are integers (the getTime() of the Date).  A user is its    *)
(* id.  description, names and e-mails take no part in any decision of     *)
(* the merge engine and are left out.                                      *)
(***************************************************************************)
EXTENDS Integers, Sequences, FiniteSets, TLC

VARIABLES
    events,     \* the events table, rows in table order
    auditLogs,  \* the audit_logs table, rows in creation order
    nextId,     \* the next fresh primary key (uuid)
    created,    \* number of events inserted by create so far
    config,     \* which optional collaborators are injected: "none", "sync", "async"
    jobs,       \* the 'ai-summary' queue: the accepted jobs
    mc,         \* the mergeAll invocations: call id -> its locals and position
    bc,         \* the batchCreate invocation: its query runner and its outcome
    fc,         \* the findConflicts invocation: its argument and its result
    scenario,   \* the set of create-event payloads the environment sends
    faulted     \* a database write has failed in this run

vars == <<events, auditLogs, nextId, created, config, jobs, mc, bc, fc, scenario, faulted>>

-----------------------------------------------------------------------------
(* Bounds and input sets                                                   *)

MaxEvents == 3

Users == {"u1", "u2", "u3"}
Ghost == "ghost"                     \* a user id that resolves to no user

TODO == "TODO"
IN_PROGRESS == "IN_PROGRESS"
COMPLETED == "COMPLETED"
CANCELED == "CANCELED"
EventStatus == {TODO, IN_PROGRESS, COMPLETED, CANCELED}

Calls == {1, 2}

-----------------------------------------------------------------------------
(* Sequence helpers                                                        *)

Range(s) == {s[i] : i \in DOMAIN s}

MapIds(s) == [i \in DOMAIN s |-> s[i].id]

MinOf(S) == CHOOSE x \in S : \A y \in S : x <= y
MaxOf(S) == CHOOSE x \in S : \A y \in S : x >= y

-----------------------------------------------------------------------------
(* Title compatibility: areTitlesCompatible                                *)

\* String.prototype.toLowerCase on one word
LowerWord(w) ==
    CASE w = "Planning" -> "planning"
      [] w = "Manager"  -> "manager"
      [] w = "Call"     -> "call"
      [] w = "Demo"     -> "demo"
      [] w = "Meeting"  -> "meeting"
      [] w = "Team"     -> "team"
      [] w = "Review"   -> "review"
      [] OTHER          -> w

\* title.toLowerCase().trim(): a sequence of words has no outer whitespace
Normalize(title) == [i \in DOMAIN title |-> LowerWord(title[i])]

\* a phrase occurs in a title as consecutive whole words
HasPhrase(t, phrase) ==
    \E i \in 1..Len(t) :
        /\ i + Len(phrase) - 1 <= Len(t)
        /\ SubSeq(t, i, i + Len(phrase) - 1) = phrase

\* RegExp.prototype.test for /\b(p1|p2|...)\b/ : some alternative occurs
Test(pattern, t) == \E phrase \in pattern : HasPhrase(t, phrase)

Words(ws) == {<<w>> : w \in ws}
OneOnOne == {<<"one", "on", "one">>}
Seniority == {"manager", "executive", "director", "vp", "ceo", "cto", "cfo"}
CallForms == Words({"call", "meeting", "1:1"}) \cup OneOnOne

incompatiblePatterns ==
    << [pattern |-> Words({"1:1", "individual"}) \cup OneOnOne
                        \cup {<<"one", "to", "one">>},
        incompatibleWith |-> << Words({"demo", "demonstration", "presentation",
                                       "standup", "sync", "review", "team", "group"}) >>],
       [pattern |-> {<<s>> \o c : s \in Seniority, c \in CallForms},
        incompatibleWith |-> << Words({"demo", "demonstration", "presentation",
                                       "client", "customer"}) >>],
       [pattern |-> Words({"personal", "private", "confidential"}),
        incompatibleWith |-> << Words({"team", "group", "public", "company"})
                                    \cup {<<"all", "hands">>} >>],
       [pattern |-> Words({"client", "customer", "external", "vendor", "partner"}),
        incompatibleWith |-> << Words({"internal", "team", "standup", "sync", "1:1"})
                                    \cup OneOnOne >>],
       [pattern |-> Words({"demo", "demonstration", "presentation"}),
        incompatibleWith |-> << Words({"1:1", "manager", "executive",
                                       "personal", "private"}) \cup OneOnOne >>] >>

\* one rule of the loop: TRUE when the rule returns false (incompatible)
RuleBlocks(rule, t1, t2) ==
    LET matches1 == Test(rule.pattern, t1)
        matches2 == Test(rule.pattern, t2)
        otherTitle == IF matches1 THEN t2 ELSE t1
    IN  /\ matches1 \/ matches2
        /\ \E k \in DOMAIN rule.incompatibleWith :
               Test(rule.incompatibleWith[k], otherTitle)

areTitlesCompatible(title1, title2) ==
    LET t1 == Normalize(title1)
        t2 == Normalize(title2)
    IN  \A r \in DOMAIN incompatiblePatterns :
            ~RuleBlocks(incompatiblePatterns[r], t1, t2)

-----------------------------------------------------------------------------
(* The pairwise predicate: isOverlapping                                   *)

Participants(e) == {e.creator} \cup e.invitees

\* isOverlapping without the two delete(userId) calls
isOverlappingCountingSelf(event1, event2, userId) ==
    /\ event1.startTime <= event2.endTime
    /\ event1.endTime >= event2.startTime
    /\ Participants(event1) \cap Participants(event2) # {}
    /\ areTitlesCompatible(event1.title, event2.title)

isOverlapping(event1, event2, userId) ==
    LET timeOverlaps == /\ event1.startTime <= event2.endTime
                        /\ event1.endTime >= event2.startTime
        event1Participants == Participants(event1) \ {userId}
        event2Participants == Participants(event2) \ {userId}
        hasCommonParticipant == event1Participants \cap event2Participants # {}
    IN  /\ timeOverlaps
        /\ hasCommonParticipant
        /\ areTitlesCompatible(event1.title, event2.title)

-----------------------------------------------------------------------------
(* The grouper: groupOverlappingEvents                                     *)

RECURSIVE ScanPass(_, _, _, _, _, _)
\* one pass of `for (const otherEvent of events)` inside the while loop,
\* from index i on; the group grows while the pass is running
ScanPass(evs, userId, group, processed, foundOverlap, i) ==
    IF i > Len(evs) THEN
        [group |-> group, processed |-> processed, foundOverlap |-> foundOverlap]
    ELSE IF evs[i].id \in processed THEN
        ScanPass(evs, userId, group, processed, foundOverlap, i + 1)
    ELSE IF \E k \in DOMAIN group : isOverlapping(group[k], evs[i], userId) THEN
        ScanPass(evs, userId, Append(group, evs[i]),
                 processed \cup {evs[i].id}, TRUE, i + 1)
    ELSE
        ScanPass(evs, userId, group, processed, foundOverlap, i + 1)

\* a single pass over the events, no `while (foundOverlap)` around it
GrowGroupOnePass(evs, userId, group, processed) ==
    ScanPass(evs, userId, group, processed, FALSE, 1)

RECURSIVE GrowGroup(_, _, _, _)
\* `while (foundOverlap)`: passes until one adds nothing
GrowGroup(evs, userId, group, processed) ==
    LET r == ScanPass(evs, userId, group, processed, FALSE, 1)
    IN  IF r.foundOverlap
        THEN GrowGroup(evs, userId, r.group, r.processed)
        ELSE r

RECURSIVE GroupFromKeepingSingletons(_, _, _, _, _)
\* the outer loop without `if (group.length > 1)`: every group is pushed
GroupFromKeepingSingletons(evs, userId, groups, processed, i) ==
    IF i > Len(evs) THEN groups
    ELSE IF evs[i].id \in processed THEN
        GroupFromKeepingSingletons(evs, userId, groups, processed, i + 1)
    ELSE
        LET r == GrowGroup(evs, userId, <<evs[i]>>, processed \cup {evs[i].id})
        IN  GroupFromKeepingSingletons(evs, userId, Append(groups, r.group),
                                       r.processed, i + 1)

RECURSIVE GroupFrom(_, _, _, _, _)
\* the outer `for (const event of events)` from index i on
GroupFrom(evs, userId, groups, processed, i) ==
    IF i > Len(evs) THEN groups
    ELSE IF evs[i].id \in processed THEN
        GroupFrom(evs, userId, groups, processed, i + 1)
    ELSE
        LET r == GrowGroup(evs, userId, <<evs[i]>>, processed \cup {evs[i].id})
        IN  GroupFrom(evs, userId,
                      IF Len(r.group) > 1 THEN Append(groups, r.group) ELSE groups,
                      r.processed, i + 1)

groupOverlappingEvents(evs, userId) == GroupFrom(evs, userId, <<>>, {}, 1)

RECURSIVE ReduceLargest(_, _, _)
\* groups.reduce((prev, current) => current.length > prev.length ? current : prev)
ReduceLargest(groups, prev, i) ==
    IF i > Len(groups) THEN prev
    ELSE ReduceLargest(groups,
                       IF Len(groups[i]) > Len(prev) THEN groups[i] ELSE prev,
                       i + 1)

RECURSIVE ReduceLargestOrLater(_, _, _)
\* the reduce with >= in place of > : among groups of equal length the later one wins
ReduceLargestOrLater(groups, prev, i) ==
    IF i > Len(groups) THEN prev
    ELSE ReduceLargestOrLater(groups,
                              IF Len(groups[i]) >= Len(prev) THEN groups[i] ELSE prev,
                              i + 1)

largestGroupLaterOfTies(groups) == ReduceLargestOrLater(groups, groups[1], 2)

largestGroup(groups) == ReduceLargest(groups, groups[1], 2)

-----------------------------------------------------------------------------
(* The synthesizer: the pure part of mergeEvents                           *)

RECURSIVE InsertSorted(_, _)
\* e goes after every element whose startTime is not greater (stable)
InsertSorted(sorted, e) ==
    IF sorted = <<>> THEN <<e>>
    ELSE IF sorted[Len(sorted)].startTime - e.startTime <= 0
         THEN Append(sorted, e)
         ELSE Append(InsertSorted(SubSeq(sorted, 1, Len(sorted) - 1), e),
                     sorted[Len(sorted)])

RECURSIVE SortFrom(_, _, _)
SortFrom(evs, sorted, i) ==
    IF i > Len(evs) THEN sorted
    ELSE SortFrom(evs, InsertSorted(sorted, evs[i]), i + 1)

\* the group in the order the grouper built it, not sorted
sortedEventsUnsorted(evs) == evs

\* [...events].sort((a, b) => a.startTime.getTime() - b.startTime.getTime())
sortedEvents(evs) == SortFrom(evs, <<>>, 1)

RECURSIVE JoinTitles(_, _)
\* titles.join(' | ')
JoinTitles(sorted, i) ==
    IF i > Len(sorted) THEN <<>>
    ELSE IF i = Len(sorted) THEN sorted[i].title
    ELSE sorted[i].title \o <<"|">> \o JoinTitles(sorted, i + 1)

RECURSIVE ReduceEndTime(_, _, _)
\* reduce((latest, event) => event.endTime > latest ? event.endTime : latest, sorted[0].endTime)
ReduceEndTime(sorted, latest, i) ==
    IF i > Len(sorted) THEN latest
    ELSE ReduceEndTime(sorted,
                       IF sorted[i].endTime > latest THEN sorted[i].endTime ELSE latest,
                       i + 1)

\* the end of the last event in start order instead of the latest end
mergedEndTimeOfLast(sorted) == sorted[Len(sorted)].endTime

mergedEndTime(sorted) == ReduceEndTime(sorted, sorted[1].endTime, 1)

mergedStartTime(sorted) == sorted[1].startTime

statusPriority(s) ==
    CASE s = COMPLETED   -> 4
      [] s = IN_PROGRESS -> 3
      [] s = TODO        -> 2
      [] s = CANCELED    -> 1

RECURSIVE ReduceStatus(_, _, _)
\* reduce((highest, event) => priority[event.status] > priority[highest.status] ? event : highest)
ReduceStatus(sorted, highest, i) ==
    IF i > Len(sorted) THEN highest
    ELSE ReduceStatus(sorted,
                      IF statusPriority(sorted[i].status) > statusPriority(highest.status)
                      THEN sorted[i] ELSE highest,
                      i + 1)

\* the status of the earliest event instead of the reduce over priorities
mergedStatusOfFirst(sorted) == sorted[1].status

mergedStatus(sorted) == ReduceStatus(sorted, sorted[1], 2).status

\* the keys of allInvitees without allInvitees.delete(creator.id)
mergedInviteesKeepingCreator(sorted) ==
    UNION {Participants(sorted[i]) : i \in DOMAIN sorted}

\* the keys of allInvitees after allInvitees.delete(creator.id)
mergedInvitees(sorted) ==
    UNION {Participants(sorted[i]) : i \in DOMAIN sorted} \ {sorted[1].creator}

\* eventData handed to eventRepository.create: the merged event, id not yet assigned
mergedDraft(group) ==
    LET sorted == sortedEvents(group)
    IN  [title      |-> JoinTitles(sorted, 1),
         status     |-> mergedStatus(sorted),
         startTime  |-> mergedStartTime(sorted),
         endTime    |-> mergedEndTime(sorted),
         creator    |-> sorted[1].creator,
         invitees   |-> mergedInvitees(sorted),
         mergedFrom |-> MapIds(sorted)]

-----------------------------------------------------------------------------
(* The event store                                                         *)

Involves(e, userId) == e.creator = userId \/ userId \in e.invitees

\* The rows of the query
\*   leftJoinAndSelect(creator).leftJoinAndSelect(invitees)
\*     .where('creator.id = :userId').orWhere('invitees.id = :userId')
\* hydrated by getMany(): the WHERE clause filters the joined rows, so an event
\* created by userId comes with all its invitee rows, and an event that only
\* invites userId comes with the single invitee row that matched.
Hydrate(e, userId) ==
    IF e.creator = userId THEN e ELSE [e EXCEPT !.invitees = {userId}]

RECURSIVE LoadFrom(_, _, _)
LoadFrom(rows, userId, i) ==
    IF i > Len(rows) THEN <<>>
    ELSE IF Involves(rows[i], userId)
         THEN <<Hydrate(rows[i], userId)>> \o LoadFrom(rows, userId, i + 1)
         ELSE LoadFrom(rows, userId, i + 1)

loadEventsInvolving(rows, userId) == LoadFrom(rows, userId, 1)

RECURSIVE FilterNotCanceled(_, _)
\* events.filter((e) => e.status !== EventStatus.CANCELED)
FilterNotCanceled(evs, i) ==
    IF i > Len(evs) THEN <<>>
    ELSE IF evs[i].status # CANCELED
         THEN <<evs[i]>> \o FilterNotCanceled(evs, i + 1)
         ELSE FilterNotCanceled(evs, i + 1)

\* no status filter
mergeableEventsUnfiltered(evs) == evs

mergeableEvents(evs) == FilterNotCanceled(evs, 1)

IdsOfLoaded(rows, userId) ==
    Range(MapIds(loadEventsInvolving(rows, userId)))

RECURSIVE RemoveIds(_, _, _)
\* eventRepository.remove(entities): the rows with these primary keys go
RemoveIds(rows, ids, i) ==
    IF i > Len(rows) THEN <<>>
    ELSE IF rows[i].id \in ids
         THEN RemoveIds(rows, ids, i + 1)
         ELSE <<rows[i]>> \o RemoveIds(rows, ids, i + 1)

-----------------------------------------------------------------------------
(* Request payloads of the environment                                     *)

Dto(title, status, startTime, endTime, creatorId, inviteeIds) ==
    [title |-> title, status |-> status, startTime |-> startTime,
     endTime |-> endTime, creatorId |-> creatorId, inviteeIds |-> inviteeIds]

\* Each run of the system draws its create-event payloads from one of these
\* sets; a set varies the fields one decision of the merge engine reads.
Scenarios == {"times", "participants", "titles", "groups", "order"}

\* how many events create may insert in a run: the two-payload scenario
\* "groups" is given two more, so that two groups of different sizes form;
\* "edits", whose events are also rewritten by update, one less
MaxCreated(sc) ==
    IF sc = "groups" THEN MaxEvents + 2
    ELSE IF sc = "edits" THEN MaxEvents - 1
    ELSE MaxEvents

\* the longest batch the environment sends to batchCreate
MaxBatch == 2

Inputs(sc) ==
    CASE sc = "times" ->
            { Dto(<<"Planning">>, TODO,        0, 1, "u1", <<"u2">>),
              Dto(<<"Planning">>, IN_PROGRESS, 1, 2, "u1", <<"u2">>),
              Dto(<<"Planning">>, COMPLETED,   2, 3, "u1", <<"u2">>),
              Dto(<<"Planning">>, TODO,        0, 3, "u1", <<"u2">>),
              Dto(<<"Planning">>, CANCELED,    0, 3, "u1", <<"u2">>),
              Dto(<<"Planning">>, TODO,        2, 2, "u1", <<"u2">>) }
      [] sc = "participants" ->
            { Dto(<<"Planning">>, TODO, 0, 1, "u1", <<"u2">>),
              Dto(<<"Planning">>, TODO, 1, 2, "u1", <<"u3">>),
              Dto(<<"Planning">>, TODO, 0, 1, "u2", <<"u1", "u3">>),
              Dto(<<"Planning">>, TODO, 1, 2, "u1", <<"u2", "u3">>),
              Dto(<<"Planning">>, TODO, 0, 1, "u1", <<"u1", "u2">>),
              Dto(<<"Planning">>, TODO, 0, 1, "u1", <<>>),
              Dto(<<"Planning">>, TODO, 0, 1, Ghost, <<"u2">>),
              Dto(<<"Planning">>, TODO, 0, 1, "u1", <<Ghost>>) }
      [] sc = "titles" ->
            { Dto(<<"Planning">>,                TODO, 0, 1, "u1", <<"u2">>),
              Dto(<<"1:1", "Manager", "Call">>,  TODO, 0, 1, "u1", <<"u2">>),
              Dto(<<"Demo", "Meeting">>,         TODO, 0, 1, "u1", <<"u2">>),
              Dto(<<"individual">>,              TODO, 0, 1, "u1", <<"u2">>),
              Dto(<<"individual", "Review">>,    TODO, 0, 1, "u1", <<"u2">>) }
      [] sc = "groups" ->
            { Dto(<<"Planning">>, TODO, 0, 1, "u1", <<"u2">>),
              Dto(<<"Planning">>, TODO, 2, 3, "u1", <<"u2">>) }
      [] sc = "order" ->
            { Dto(<<"Team">>,     TODO, 1, 2, "u1", <<"u2">>),
              Dto(<<"Planning">>, TODO, 0, 1, "u1", <<"u2">>),
              Dto(<<>>,           TODO, 0, 2, "u1", <<"u2">>),
              Dto(<<"Team">>,     TODO, 2, 1, "u1", <<"u2">>) }
      [] sc = "edits" ->
            { Dto(<<"Planning">>, TODO, 0, 1, "u1", <<"u2">>),
              Dto(<<"Planning">>, TODO, 1, 2, "u1", <<"u2">>),
              Dto(<<"Planning">>, TODO, 2, 2, "u1", <<"u2">>),
              Dto(<<"Planning">>, TODO, 0, 1, "u1", <<"u1", "u2">>),
              Dto(<<"Planning">>, TODO, 0, 1, "u1", <<"u2", "u2">>) }

-----------------------------------------------------------------------------
(* EventService.create                                                     *)

CreateBadTime(dto) == dto.startTime >= dto.endTime
CreateNoInvitees(dto) == Len(dto.inviteeIds) = 0
CreateCreatorInvited(dto) == dto.creatorId \in Range(dto.inviteeIds)
\* userRepository.find({ where: { id: In(inviteeIds) } })
foundInvitees(dto) == Range(dto.inviteeIds) \cap Users

\* the exception create throws for dto, "" when it throws none
CreateError(dto) ==
    IF dto.creatorId \notin Users THEN "NotFound"
    ELSE IF CreateBadTime(dto) THEN "BadRequest"
    ELSE IF CreateNoInvitees(dto) THEN "BadRequest"
    ELSE IF CreateCreatorInvited(dto) THEN "BadRequest"
    ELSE IF Cardinality(foundInvitees(dto)) # Len(dto.inviteeIds) THEN "NotFound"
    ELSE ""

NewEvent(dto, id) ==
    [id |-> id, title |-> dto.title, status |-> dto.status,
     startTime |-> dto.startTime, endTime |-> dto.endTime,
     creator |-> dto.creatorId, invitees |-> foundInvitees(dto),
     mergedFrom |-> <<>>]

\* The environment seeds the store before it asks for merges: create is
\* requested only while no merge has written a row (the only other source of
\* primary keys).
Seeding == nextId = created + 1

Create(dto) ==
    /\ Seeding
    /\ created < MaxCreated(scenario)
    /\ CreateError(dto) = ""
    /\ events' = Append(events, NewEvent(dto, nextId))
    /\ nextId' = nextId + 1
    /\ created' = created + 1
    /\ UNCHANGED <<bc, fc, auditLogs, config, jobs, mc, scenario, faulted>>

\* create throws before it writes anything
CreateRejected(dto) ==
    /\ CreateError(dto) # ""
    /\ UNCHANGED vars

-----------------------------------------------------------------------------
(* EventService.batchCreate                                                *)

\* batchDto.events.length > 500
BatchLimit == 500

\* the batches of the environment: every sequence of at most MaxBatch payloads
\* and one batch that is one event over the limit
Batches(sc) ==
    UNION {[1..n -> Inputs(sc)] : n \in 0..MaxBatch}
        \cup {[i \in 1..(BatchLimit + 1) |-> Dto(<<"Planning">>, TODO, 0, 1, "u1", <<"u2">>)]}

\* the exception batchCreate throws for a batch, "" when it throws none
BatchCreateError(batch) ==
    IF Len(batch) = 0 THEN "BadRequest"
    ELSE IF Len(batch) > BatchLimit THEN "BadRequest"
    ELSE IF \E i \in DOMAIN batch : batch[i].creatorId \notin Users THEN "NotFound"
    ELSE IF \E i \in DOMAIN batch : CreateNoInvitees(batch[i]) THEN "BadRequest"
    ELSE IF \E i \in DOMAIN batch : ~(Range(batch[i].inviteeIds) \subseteq Users)
         THEN "NotFound"
    ELSE IF \E i \in DOMAIN batch : CreateCreatorInvited(batch[i]) THEN "BadRequest"
    ELSE IF \E i \in DOMAIN batch : CreateBadTime(batch[i]) THEN "BadRequest"
    ELSE ""

\* the rows of the bulk insert and of the insert into event_invitees
\* (ON CONFLICT DO NOTHING: one row per invitee id), keys generated in batch order
BatchRows(batch, firstId) ==
    [i \in DOMAIN batch |->
        [id |-> firstId + i - 1, title |-> batch[i].title, status |-> batch[i].status,
         startTime |-> batch[i].startTime, endTime |-> batch[i].endTime,
         creator |-> batch[i].creatorId, invitees |-> Range(batch[i].inviteeIds),
         mergedFrom |-> <<>>]]

\* the locals of a batchCreate call: the size of its batch, the exception it
\* throws, what was called on its query runner and with what effect, and the
\* number of rows it has left in the events table
BatchCall(pc, size, error, connected, started, committed, rolledBack, released, stored) ==
    [pc |-> pc, size |-> size, error |-> error, connected |-> connected,
     started |-> started, committed |-> committed, rolledBack |-> rolledBack,
     released |-> released, stored |-> stored]

IdleBatch == BatchCall("idle", 0, "", FALSE, FALSE, FALSE, FALSE, FALSE, 0)

\* the two length checks before createQueryRunner
BatchPreCheckFails(batch) == Len(batch) = 0 \/ Len(batch) > BatchLimit

\* connect, startTransaction, the checks pass, the inserts, commitTransaction,
\* release in the finally block
BatchCreate(batch) ==
    /\ bc.pc = "idle"
    /\ Seeding
    /\ created + Len(batch) <= MaxCreated(scenario)
    /\ BatchCreateError(batch) = ""
    /\ events' = events \o BatchRows(batch, nextId)
    /\ nextId' = nextId + Len(batch)
    /\ created' = created + Len(batch)
    /\ bc' = BatchCall("done", Len(batch), "", TRUE, TRUE, TRUE, FALSE, TRUE, Len(batch))
    /\ UNCHANGED <<fc, auditLogs, config, jobs, mc, scenario, faulted>>

\* batchCreate throws: before createQueryRunner, or inside the try block, and
\* then the catch block rolls back and the finally block releases
BatchCreateRejected(batch) ==
    /\ bc.pc = "idle"
    /\ BatchCreateError(batch) # ""
    /\ bc' = IF BatchPreCheckFails(batch)
             THEN BatchCall("failed", Len(batch), BatchCreateError(batch),
                            FALSE, FALSE, FALSE, FALSE, FALSE, 0)
             ELSE BatchCall("failed", Len(batch), BatchCreateError(batch),
                            TRUE, TRUE, FALSE, TRUE, TRUE, 0)
    /\ UNCHANGED <<fc, events, auditLogs, nextId, created, config, jobs, mc, scenario, faulted>>

\* the calls of batchCreate on the database that may reject
BatchFaultPoints ==
    {"connect", "startTransaction", "findUsers", "insertEvents", "commitTransaction"}

\* a call on the database rejects: connect and startTransaction stand before
\* the try block, so their exception leaves batchCreate at once; the others
\* are inside it, the catch block rolls back and the finally block releases
BatchCreateFails(batch, at) ==
    /\ bc.pc = "idle"
    /\ ~BatchPreCheckFails(batch)
    /\ at \in {"insertEvents", "commitTransaction"} => BatchCreateError(batch) = ""
    /\ bc' = CASE at = "connect" ->
                    BatchCall("failed", Len(batch), "PersistenceFailure",
                              FALSE, FALSE, FALSE, FALSE, FALSE, 0)
               [] at = "startTransaction" ->
                    BatchCall("failed", Len(batch), "PersistenceFailure",
                              TRUE, FALSE, FALSE, FALSE, FALSE, 0)
               [] OTHER ->
                    BatchCall("failed", Len(batch), "PersistenceFailure",
                              TRUE, TRUE, FALSE, TRUE, TRUE, 0)
    /\ UNCHANGED <<fc, events, auditLogs, nextId, created, config, jobs, mc, scenario, faulted>>

\* the promise of batchCreate settles
BatchReturn ==
    /\ bc.pc \in {"done", "failed"}
    /\ bc' = IdleBatch
    /\ UNCHANGED <<fc, events, auditLogs, nextId, created, config, jobs, mc, scenario, faulted>>

-----------------------------------------------------------------------------
(* EventService.update                                                     *)

\* an UpdateEventDto: `has` names the properties that are present
UpdateDto(has, title, status, startTime, endTime, inviteeIds) ==
    [has |-> has, title |-> title, status |-> status, startTime |-> startTime,
     endTime |-> endTime, inviteeIds |-> inviteeIds]

Updates ==
    { UpdateDto({"startTime"}, <<>>, TODO, 1, 0, <<>>),
      UpdateDto({"endTime"}, <<>>, TODO, 0, 1, <<>>),
      UpdateDto({"startTime", "endTime"}, <<>>, TODO, 0, 2, <<>>),
      UpdateDto({"startTime", "endTime"}, <<>>, TODO, 2, 1, <<>>),
      UpdateDto({"inviteeIds"}, <<>>, TODO, 0, 0, <<"u3">>),
      UpdateDto({"inviteeIds"}, <<>>, TODO, 0, 0, <<"u2", "u1">>),
      UpdateDto({"inviteeIds"}, <<>>, TODO, 0, 0, <<"u3", "u3">>),
      UpdateDto({"title", "status"}, <<"Team">>, COMPLETED, 0, 0, <<>>) }

EventById(rows, id) == CHOOSE e \in Range(rows) : e.id = id

\* the start and end the time check of update compares
UpdateStart(event, dto) ==
    IF "startTime" \in dto.has THEN dto.startTime ELSE event.startTime
UpdateEnd(event, dto) ==
    IF "endTime" \in dto.has THEN dto.endTime ELSE event.endTime

\* the check of update that takes the stored bounds whether or not one is supplied
UpdateBadTimeStoredBounds(event, dto) ==
    /\ "startTime" \in dto.has \/ "endTime" \in dto.has
    /\ event.startTime >= event.endTime

UpdateBadTime(event, dto) ==
    /\ "startTime" \in dto.has \/ "endTime" \in dto.has
    /\ UpdateStart(event, dto) >= UpdateEnd(event, dto)

\* the exception update throws, "" when it throws none
UpdateError(rows, id, dto) ==
    IF id \notin {rows[i].id : i \in DOMAIN rows} THEN "NotFound"
    ELSE LET event == EventById(rows, id)
         IN  IF UpdateBadTime(event, dto) THEN "BadRequest"
             ELSE IF "inviteeIds" \in dto.has /\ event.creator \in Range(dto.inviteeIds)
                  THEN "BadRequest"
             ELSE IF /\ "inviteeIds" \in dto.has
                     /\ Cardinality(Range(dto.inviteeIds) \cap Users) # Len(dto.inviteeIds)
                  THEN "NotFound"
             ELSE ""

\* Object.assign(event, {...dto, startTime, endTime}) after event.invitees = invitees
Updated(event, dto) ==
    [id |-> event.id,
     title |-> IF "title" \in dto.has THEN dto.title ELSE event.title,
     status |-> IF "status" \in dto.has THEN dto.status ELSE event.status,
     startTime |-> UpdateStart(event, dto),
     endTime |-> UpdateEnd(event, dto),
     creator |-> event.creator,
     invitees |-> IF "inviteeIds" \in dto.has
                  THEN Range(dto.inviteeIds) \cap Users ELSE event.invitees,
     mergedFrom |-> event.mergedFrom]

\* eventRepository.save(event): the row with this primary key is rewritten
Update(id, dto) ==
    /\ UpdateError(events, id, dto) = ""
    /\ events' = [i \in DOMAIN events |->
                     IF events[i].id = id THEN Updated(events[i], dto) ELSE events[i]]
    /\ UNCHANGED <<bc, fc, auditLogs, nextId, created, config, jobs, mc, scenario, faulted>>

\* update throws before it writes anything
UpdateRejected(id, dto) ==
    /\ UpdateError(events, id, dto) # ""
    /\ UNCHANGED vars

-----------------------------------------------------------------------------
(* EventService.findConflicts                                              *)

\* if (!conflicts.includes(event)) conflicts.push(event)
PushNew(conflicts, event) ==
    IF event \in Range(conflicts) THEN conflicts ELSE Append(conflicts, event)

RECURSIVE ConflictsFrom(_, _, _, _, _)
\* for (i = 0; ...) for (j = i + 1; ...) from the pair (i, j) on
ConflictsFrom(evs, userId, conflicts, i, j) ==
    IF i > Len(evs) THEN conflicts
    ELSE IF j > Len(evs) THEN ConflictsFrom(evs, userId, conflicts, i + 1, i + 2)
    ELSE IF isOverlapping(evs[i], evs[j], userId)
         THEN ConflictsFrom(evs, userId, PushNew(PushNew(conflicts, evs[i]), evs[j]),
                            i, j + 1)
         ELSE ConflictsFrom(evs, userId, conflicts, i, j + 1)

\* the list findConflicts returns for an existing user
findConflicts(rows, userId) ==
    ConflictsFrom(loadEventsInvolving(rows, userId), userId, <<>>, 1, 2)

IdleFind == [pc |-> "idle", userId |-> "", error |-> "", conflicts |-> <<>>, pre |-> <<>>]

\* the whole call: user lookup, query, the two loops; it writes nothing
FindConflicts(userId) ==
    /\ fc.pc = "idle"
    /\ fc' = IF userId \notin Users
             THEN [pc |-> "failed", userId |-> userId, error |-> "NotFound",
                   conflicts |-> <<>>, pre |-> events]
             ELSE [pc |-> "done", userId |-> userId, error |-> "",
                   conflicts |-> findConflicts(events, userId), pre |-> events]
    /\ UNCHANGED <<events, auditLogs, nextId, created, config, jobs, mc, bc, scenario, faulted>>

\* the promise of findConflicts settles
FindConflictsReturn ==
    /\ fc.pc \in {"done", "failed"}
    /\ fc' = IdleFind
    /\ UNCHANGED <<events, auditLogs, nextId, created, config, jobs, mc, bc, scenario, faulted>>

-----------------------------------------------------------------------------
(* EventService.mergeAll                                                   *)

\* notes are a sequence of tokens: SQL NULL, the summarizer's text, the fallback
Null == <<"null">>
AiSummary == <<"ai-summary">>
FallbackNote(n) == <<"Merged", n, "overlapping events">>

IdleCall ==
    [pc |-> "idle", userId |-> "", group |-> <<>>, mergedId |-> 0,
     auditId |-> 0, error |-> "", summary |-> "", pre |-> <<>>, preAudit |-> <<>>]

\* the CANCELED filter and its length check moved before the check of events.length
MergeAllErrorFilterFirst(rows, userId) ==
    LET evs == loadEventsInvolving(rows, userId)
        mergeable == mergeableEvents(evs)
    IN  IF userId \notin Users THEN "NotFound"
        ELSE IF Len(mergeable) < 2 THEN "Need at least 2 non-canceled events"
        ELSE IF Len(evs) < 2 THEN "Need at least 2 events"
        ELSE IF Len(groupOverlappingEvents(mergeable, userId)) = 0
             THEN "No overlapping events found"
        ELSE ""

\* the exception the checks before the first write throw, "" when none does
MergeAllError(rows, userId) ==
    LET evs == loadEventsInvolving(rows, userId)
        mergeable == mergeableEvents(evs)
    IN  IF userId \notin Users THEN "NotFound"
        ELSE IF Len(evs) < 2 THEN "Need at least 2 events"
        ELSE IF Len(mergeable) < 2 THEN "Need at least 2 non-canceled events"
        ELSE IF Len(groupOverlappingEvents(mergeable, userId)) = 0
             THEN "No overlapping events found"
        ELSE ""

\* the group mergeAll hands to mergeEvents
SelectedGroup(rows, userId) ==
    largestGroup(groupOverlappingEvents(
        mergeableEvents(loadEventsInvolving(rows, userId)), userId))

\* user lookup, load, validation, grouping, selection: up to the first write
MergeAllBegin(c, userId) ==
    /\ mc[c].pc = "idle"
    /\ LET err == MergeAllError(events, userId)
       IN  mc' = [mc EXCEPT ![c] =
                    [pc |-> IF err = "" THEN "saveEvent" ELSE "failed",
                     userId |-> userId,
                     group |-> IF err = "" THEN SelectedGroup(events, userId) ELSE <<>>,
                     mergedId |-> 0, auditId |-> 0, error |-> err, summary |-> "",
                     pre |-> events, preAudit |-> auditLogs]]
    /\ UNCHANGED <<bc, fc, events, auditLogs, nextId, created, config, jobs, scenario, faulted>>

\* a write to the database fails: the exception leaves mergeAll
\* (the environment injects at most one such failure in a run)
WriteFails(c, at) ==
    /\ mc[c].pc = at
    /\ ~faulted
    /\ faulted' = TRUE
    /\ mc' = [mc EXCEPT ![c].pc = "failed", ![c].error = "PersistenceFailure"]
    /\ UNCHANGED <<bc, fc, events, auditLogs, nextId, created, config, jobs, scenario>>

\* the row eventRepository.save inserts for a draft: the primary key is generated
Saved(draft, id) ==
    [id |-> id, title |-> draft.title, status |-> draft.status,
     startTime |-> draft.startTime, endTime |-> draft.endTime,
     creator |-> draft.creator, invitees |-> draft.invitees,
     mergedFrom |-> draft.mergedFrom]

\* mergeEvents: await this.eventRepository.save(mergedEvent)
SaveMergedEvent(c) ==
    /\ mc[c].pc = "saveEvent"
    /\ events' = Append(events, Saved(mergedDraft(mc[c].group), nextId))
    /\ nextId' = nextId + 1
    /\ mc' = [mc EXCEPT ![c].pc = "removeSources", ![c].mergedId = nextId]
    /\ UNCHANGED <<bc, fc, auditLogs, created, config, jobs, scenario, faulted>>

\* remove(events) of everything the query loaded instead of remove(sortedEvents)
RemoveSourcesAllLoaded(c) ==
    /\ mc[c].pc = "removeSources"
    /\ events' = RemoveIds(events,
                     IdsOfLoaded(mc[c].pre, mc[c].userId), 1)
    /\ mc' = [mc EXCEPT ![c].pc = "saveAudit"]
    /\ UNCHANGED <<bc, fc, auditLogs, nextId, created, config, jobs, scenario, faulted>>

\* remove() of the sources without the first of the group: one source stays
RemoveSourcesKeepingFirst(c) ==
    /\ mc[c].pc = "removeSources"
    /\ events' = RemoveIds(events, Range(MapIds(Tail(mc[c].group))), 1)
    /\ mc' = [mc EXCEPT ![c].pc = "saveAudit"]
    /\ UNCHANGED <<auditLogs, nextId, created, config, jobs, bc, fc, scenario, faulted>>

\* mergeEvents: await this.eventRepository.remove(sortedEvents)
RemoveSources(c) ==
    /\ mc[c].pc = "removeSources"
    /\ events' = RemoveIds(events, Range(MapIds(mc[c].group)), 1)
    /\ mc' = [mc EXCEPT ![c].pc = "saveAudit"]
    /\ UNCHANGED <<bc, fc, auditLogs, nextId, created, config, jobs, scenario, faulted>>

\* the audit row filed under the creator of the merged event instead of userId
SaveAuditLogUnderCreator(c) ==
    /\ mc[c].pc = "saveAudit"
    /\ auditLogs' = Append(auditLogs,
            [id |-> nextId, userId |-> mergedDraft(mc[c].group).creator,
             newEventId |-> mc[c].mergedId,
             mergedEventIds |-> MapIds(mc[c].group), notes |-> Null])
    /\ nextId' = nextId + 1
    /\ mc' = [mc EXCEPT ![c].pc = "summarize", ![c].auditId = nextId]
    /\ UNCHANGED <<bc, fc, events, created, config, jobs, scenario, faulted>>

\* await this.auditLogRepository.save(auditLog), notes: null
SaveAuditLog(c) ==
    /\ mc[c].pc = "saveAudit"
    /\ auditLogs' = Append(auditLogs,
            [id |-> nextId, userId |-> mc[c].userId, newEventId |-> mc[c].mergedId,
             mergedEventIds |-> MapIds(mc[c].group), notes |-> Null])
    /\ nextId' = nextId + 1
    /\ mc' = [mc EXCEPT ![c].pc = "summarize", ![c].auditId = nextId]
    /\ UNCHANGED <<bc, fc, events, created, config, jobs, scenario, faulted>>

\* savedAuditLog.notes = notes; await this.auditLogRepository.save(savedAuditLog)
WithNotes(logs, id, notes) ==
    [i \in DOMAIN logs |->
        IF logs[i].id = id THEN [logs[i] EXCEPT !.notes = notes] ELSE logs[i]]

\* aiSummaryQueue && aiService: the queue accepts the job
EnqueueSummary(c) ==
    /\ mc[c].pc = "summarize"
    /\ config = "async"
    /\ jobs' = jobs \cup {[eventData |-> mc[c].group, userId |-> mc[c].userId,
                           mergedEventId |-> mc[c].mergedId,
                           mergedEventIds |-> MapIds(mc[c].group),
                           auditLogId |-> mc[c].auditId, attemptsMade |-> 0]}
    /\ mc' = [mc EXCEPT ![c].pc = "done", ![c].summary = "enqueued"]
    /\ UNCHANGED <<bc, fc, events, auditLogs, nextId, created, config, scenario, faulted>>

\* a catch block that only logs: no fallback note is written
EnqueueFailsSilently(c) ==
    /\ mc[c].pc = "summarize"
    /\ config = "async"
    /\ mc' = [mc EXCEPT ![c].pc = "done", ![c].summary = "enqueueThrew"]
    /\ UNCHANGED <<bc, fc, events, auditLogs, nextId, created, config, jobs, scenario, faulted>>

\* aiSummaryQueue.add throws: the catch block writes the fallback note
EnqueueFails(c) ==
    /\ mc[c].pc = "summarize"
    /\ config = "async"
    /\ auditLogs' = WithNotes(auditLogs, mc[c].auditId, FallbackNote(Len(mc[c].group)))
    /\ mc' = [mc EXCEPT ![c].pc = "done", ![c].summary = "enqueueThrew"]
    /\ UNCHANGED <<bc, fc, events, nextId, created, config, jobs, scenario, faulted>>

\* only aiService: the synchronous summarizer answers
SummarizeSync(c) ==
    /\ mc[c].pc = "summarize"
    /\ config = "sync"
    /\ auditLogs' = WithNotes(auditLogs, mc[c].auditId, AiSummary)
    /\ mc' = [mc EXCEPT ![c].pc = "done", ![c].summary = "summarized"]
    /\ UNCHANGED <<bc, fc, events, nextId, created, config, jobs, scenario, faulted>>

\* no catch block: the summarizer's exception leaves mergeAll
SummarizeSyncFailsUncaught(c) ==
    /\ mc[c].pc = "summarize"
    /\ config = "sync"
    /\ mc' = [mc EXCEPT ![c].pc = "failed", ![c].error = "SummarizerFailure",
                         ![c].summary = "summarizerThrew"]
    /\ UNCHANGED <<bc, fc, events, auditLogs, nextId, created, config, jobs, scenario, faulted>>

\* only aiService: summarizeMergedEvents throws, the catch block writes the fallback
SummarizeSyncFails(c) ==
    /\ mc[c].pc = "summarize"
    /\ config = "sync"
    /\ auditLogs' = WithNotes(auditLogs, mc[c].auditId, FallbackNote(Len(mc[c].group)))
    /\ mc' = [mc EXCEPT ![c].pc = "done", ![c].summary = "summarizerThrew"]
    /\ UNCHANGED <<bc, fc, events, nextId, created, config, jobs, scenario, faulted>>

\* no aiService: the fallback note
SummarizeNone(c) ==
    /\ mc[c].pc = "summarize"
    /\ config = "none"
    /\ auditLogs' = WithNotes(auditLogs, mc[c].auditId, FallbackNote(Len(mc[c].group)))
    /\ mc' = [mc EXCEPT ![c].pc = "done", ![c].summary = "noSummarizer"]
    /\ UNCHANGED <<bc, fc, events, nextId, created, config, jobs, scenario, faulted>>

\* the promise of mergeAll settles (resolved from "done", rejected from "failed")
Return(c) ==
    /\ mc[c].pc \in {"done", "failed"}
    /\ mc' = [mc EXCEPT ![c] = IdleCall]
    /\ UNCHANGED <<bc, fc, events, auditLogs, nextId, created, config, jobs, scenario, faulted>>

-----------------------------------------------------------------------------
(* AiSummaryProcessor.process: the worker of the 'ai-summary' queue        *)

\* attempts: 3 in the options of aiSummaryQueue.add
Attempts == 3

\* the queue hands a job to the worker while it has attempts left
Runnable(job) == job.attemptsMade < Attempts /\ Len(job.eventData) > 0

\* the summarizer answers: notes = summary, the job completes and is removed
\* (removeOnComplete: true)
ProcessSummarizes(job) ==
    /\ job \in jobs
    /\ Runnable(job)
    /\ auditLogs' = WithNotes(auditLogs, job.auditLogId, AiSummary)
    /\ jobs' = jobs \ {job}
    /\ UNCHANGED <<bc, fc, events, nextId, created, config, mc, scenario, faulted>>

\* a catch block that only logs and rethrows: no fallback note is written
ProcessSummarizerThrowsSilently(job) ==
    /\ job \in jobs
    /\ Runnable(job)
    /\ jobs' = (jobs \ {job}) \cup {[job EXCEPT !.attemptsMade = @ + 1]}
    /\ UNCHANGED <<events, auditLogs, nextId, created, config, mc, bc, fc, scenario, faulted>>

\* summarizeMergedEvents throws: the catch block writes the fallback note and
\* rethrows; the attempt has failed and the job stays for a retry, or as a
\* failed job when it was the last attempt (removeOnFail: false)
ProcessSummarizerThrows(job) ==
    /\ job \in jobs
    /\ Runnable(job)
    /\ auditLogs' = WithNotes(auditLogs, job.auditLogId,
                              FallbackNote(Len(job.eventData)))
    /\ jobs' = (jobs \ {job}) \cup {[job EXCEPT !.attemptsMade = @ + 1]}
    /\ UNCHANGED <<bc, fc, events, nextId, created, config, mc, scenario, faulted>>

-----------------------------------------------------------------------------
(* The system: requests are served one at a time, every database write    *)
(* succeeds; no worker is attached to the queue                            *)

Quiet == bc.pc = "idle" /\ fc.pc = "idle" /\ \A c \in Calls : mc[c].pc = "idle"

Init ==
    /\ events = <<>>
    /\ auditLogs = <<>>
    /\ nextId = 1
    /\ created = 0
    /\ config \in {"none", "sync", "async"}
    /\ jobs = {}
    /\ mc = [c \in Calls |-> IdleCall]
    /\ bc = IdleBatch
    /\ fc = IdleFind
    /\ scenario \in Scenarios
    /\ faulted = FALSE

Next ==
    \/ \E dto \in Inputs(scenario) : Quiet /\ Create(dto)
    \/ \E dto \in Inputs(scenario) : Quiet /\ CreateRejected(dto)
    \/ \E userId \in Users \cup {Ghost} : Quiet /\ MergeAllBegin(1, userId)
    \/ SaveMergedEvent(1)
    \/ RemoveSources(1)
    \/ SaveAuditLog(1)
    \/ EnqueueSummary(1)
    \/ EnqueueFails(1)
    \/ SummarizeSync(1)
    \/ SummarizeSyncFails(1)
    \/ SummarizeNone(1)
    \/ Return(1)

Spec == Init /\ [][Next]_vars

\* the same system on a database that may fail one write
NextFaulty ==
    \/ Next
    \/ \E at \in {"saveEvent", "removeSources", "saveAudit"} : WriteFails(1, at)

SpecFaulty == Init /\ [][NextFaulty]_vars

\* the same system with the worker of the 'ai-summary' queue running: it takes
\* jobs at any time, also while a request is being served
NextQueue ==
    \/ Next
    \/ \E job \in jobs : ProcessSummarizes(job)
    \/ \E job \in jobs : ProcessSummarizerThrows(job)

\* the system whose clients also send batches and updates, with no summarizer
\* and no queue injected
InitEdits ==
    /\ events = <<>>
    /\ auditLogs = <<>>
    /\ nextId = 1
    /\ created = 0
    /\ config = "none"
    /\ jobs = {}
    /\ mc = [c \in Calls |-> IdleCall]
    /\ bc = IdleBatch
    /\ fc = IdleFind
    /\ scenario = "edits"
    /\ faulted = FALSE

\* the ids clients send: those of the stored events and one of no event
IdsInUse == {events[i].id : i \in DOMAIN events} \cup {nextId}

NextEdits ==
    \/ \E dto \in Inputs(scenario) : Quiet /\ Create(dto)
    \/ \E dto \in Inputs(scenario) : Quiet /\ CreateRejected(dto)
    \/ \E userId \in {"u1", "u2"} : Quiet /\ MergeAllBegin(1, userId)
    \/ SaveMergedEvent(1)
    \/ RemoveSources(1)
    \/ SaveAuditLog(1)
    \/ SummarizeNone(1)
    \/ Return(1)
    \/ \E batch \in Batches(scenario) : Quiet /\ BatchCreate(batch)
    \/ \E batch \in Batches(scenario) : Quiet /\ BatchCreateRejected(batch)
    \/ \E id \in IdsInUse, dto \in Updates : Quiet /\ Update(id, dto)
    \/ \E id \in IdsInUse, dto \in Updates : Quiet /\ UpdateRejected(id, dto)
    \/ BatchReturn

SpecEdits == InitEdits /\ [][NextEdits]_vars

\* the same clients on a database that may reject a call of batchCreate
NextBatch ==
    \/ NextEdits
    \/ \E batch \in Batches(scenario), at \in BatchFaultPoints :
           Quiet /\ BatchCreateFails(batch, at)

SpecBatch == InitEdits /\ [][NextBatch]_vars

\* clients that create events and ask for the conflicts of a user
InitConflicts == Init /\ config = "none" /\ scenario \in {"times", "participants", "titles"}

NextConflicts ==
    \/ \E dto \in Inputs(scenario) : Quiet /\ Create(dto)
    \/ \E dto \in Inputs(scenario) : Quiet /\ CreateRejected(dto)
    \/ \E userId \in Users \cup {Ghost} : Quiet /\ FindConflicts(userId)
    \/ FindConflictsReturn

SpecConflicts == InitConflicts /\ [][NextConflicts]_vars

\* the system with aiService and the queue injected and a worker that is
\* attached to the queue: a job that can run is eventually run
InitWorker == Init /\ config = "async" /\ scenario \in {"groups", "order"}

WorkerRuns ==
    \/ \E job \in jobs : ProcessSummarizes(job)
    \/ \E job \in jobs : ProcessSummarizerThrows(job)

NextWorker ==
    \/ \E dto \in Inputs(scenario) : Quiet /\ Create(dto)
    \/ \E dto \in Inputs(scenario) : Quiet /\ CreateRejected(dto)
    \/ Quiet /\ MergeAllBegin(1, "u1")
    \/ SaveMergedEvent(1)
    \/ RemoveSources(1)
    \/ SaveAuditLog(1)
    \/ EnqueueSummary(1)
    \/ EnqueueFails(1)
    \/ Return(1)
    \/ WorkerRuns

SpecWorker == InitWorker /\ [][NextWorker]_vars /\ WF_vars(WorkerRuns)

\* clients that create events in every order and ask for merges, with no
\* summarizer and no queue injected: the lists the grouper is applied to
InitGrouper ==
    Init /\ config = "none" /\ scenario \in {"times", "participants", "titles", "groups"}

NextGrouper ==
    \/ \E dto \in Inputs(scenario) : Quiet /\ Create(dto)
    \/ \E dto \in Inputs(scenario) : Quiet /\ CreateRejected(dto)
    \/ \E userId \in Users \cup {Ghost} : Quiet /\ MergeAllBegin(1, userId)
    \/ SaveMergedEvent(1)
    \/ RemoveSources(1)
    \/ SaveAuditLog(1)
    \/ SummarizeNone(1)
    \/ Return(1)

SpecGrouper == InitGrouper /\ [][NextGrouper]_vars

\* two mergeAll requests served at the same time: the awaits of one call
\* interleave with those of the other; no summarizer and no queue injected
\* a call begins only while the merges have written at most this many rows
MaxMergeWrites == 1

InitConcurrent == Init /\ config = "none" /\ scenario \in {"times", "order"}

NextConcurrent ==
    \/ \E dto \in Inputs(scenario) : Quiet /\ Create(dto)
    \/ \E dto \in Inputs(scenario) : Quiet /\ CreateRejected(dto)
    \/ \E c \in Calls, userId \in {"u1", "u2"} :
           nextId <= created + 1 + MaxMergeWrites /\ MergeAllBegin(c, userId)
    \/ \E c \in Calls : SaveMergedEvent(c)
    \/ \E c \in Calls : RemoveSources(c)
    \/ \E c \in Calls : SaveAuditLog(c)
    \/ \E c \in Calls : SummarizeNone(c)
    \/ \E c \in Calls : Return(c)

SpecConcurrent == InitConcurrent /\ [][NextConcurrent]_vars

\* payloads that lead to one merge of three events ("order") and to several
\* merges, hence several jobs, in one run ("groups")
InitQueue == Init /\ scenario \in {"groups", "order"}

SpecQueue == InitQueue /\ [][NextQueue]_vars

-----------------------------------------------------------------------------
(* Vocabulary of the properties                                            *)

IdsOf(rows) == {rows[i].id : i \in DOMAIN rows}
RowsOf(rows, ids) == {e \in Range(rows) : e.id \in ids}
GroupIds(c) == IdsOf(mc[c].group)

\* the stored events of a user, as rows of the table (all invitees present)
StoredEventsOf(rows, userId) == {e \in Range(rows) : Involves(e, userId)}
NotCanceledOf(rows, userId) == {e \in StoredEventsOf(rows, userId) : e.status # CANCELED}

\* the row a successful call inserted
MergedRow(c) == CHOOSE e \in Range(events) : e.id = mc[c].mergedId

Active(c) == mc[c].pc # "idle"
Succeeded(c) == mc[c].pc = "done"
Failed(c) == mc[c].pc = "failed"

TimeOverlap(a, b) == a.startTime <= b.endTime /\ a.endTime >= b.startTime
ShareOtherThan(a, b, userId) ==
    (Participants(a) \cap Participants(b)) \ {userId} # {}
CompatibleBothWays(a, b) ==
    areTitlesCompatible(a.title, b.title) /\ areTitlesCompatible(b.title, a.title)

-----------------------------------------------------------------------------
(* C1: after a successful mergeAll the store is the store before the call, *)
(* minus exactly the members of the selected group, plus exactly one new   *)
(* event; every other stored event is unchanged.                           *)
C1_FrameEffect ==
    \A c \in Calls : Succeeded(c) =>
        LET pre == mc[c].pre
            kept == {e \in Range(pre) : e.id \notin GroupIds(c)}
            added == {e \in Range(events) : e.id \notin IdsOf(pre)}
        IN  /\ GroupIds(c) \subseteq IdsOf(pre)
            /\ Range(events) = kept \cup added
            /\ added = {MergedRow(c)}
            /\ Len(events) = Len(pre) - Len(mc[c].group) + 1
            /\ IdsOf(events) \cap GroupIds(c) = {}

\* a merge that left behind a member of another eligible group
C1_Witness ==
    /\ Succeeded(1)
    /\ \E a, b \in Range(events) :
           /\ a.id # b.id
           /\ {a.id, b.id} \subseteq IdsOf(mc[1].pre)
           /\ isOverlapping(a, b, mc[1].userId)

(* C2: the Persisting step is atomic: when a write of it fails, mergeAll   *)
(* raises an error and the event store and the audit log are as before the *)
(* call.                                                                   *)
C2_PersistAtomic ==
    \A c \in Calls :
        (Failed(c) /\ mc[c].error = "PersistenceFailure") =>
            /\ events = mc[c].pre
            /\ auditLogs = mc[c].preAudit

(* C3: the merged event starts at the minimum startTime and ends at the    *)
(* maximum endTime over exactly the members of the selected group.         *)
C3_MinStartMaxEnd ==
    \A c \in Calls : Succeeded(c) =>
        /\ MergedRow(c).startTime = MinOf({e.startTime : e \in Range(mc[c].group)})
        /\ MergedRow(c).endTime = MaxOf({e.endTime : e \in Range(mc[c].group)})

\* a group of two different ranges, and an event outside it that ends later
C3_Witness ==
    /\ Succeeded(1)
    /\ \E a, b \in Range(mc[1].group) :
           a.startTime < b.startTime /\ a.endTime < b.endTime
    /\ \E x \in StoredEventsOf(mc[1].pre, mc[1].userId) :
           /\ x.id \notin GroupIds(1)
           /\ x.endTime > MergedRow(1).endTime

(* C4: mergeAll never consolidates two events whose titles are             *)
(* incompatible: no merged group holds both events of an incompatible      *)
(* pair (here: a pair the rule set rejects in both argument orders).       *)
C4_NoIncompatiblePairMerged ==
    \A c \in Calls : Succeeded(c) =>
        \A a, b \in Range(mc[c].group) :
            a.id # b.id =>
                \/ areTitlesCompatible(a.title, b.title)
                \/ areTitlesCompatible(b.title, a.title)

(* C5: areTitlesCompatible is symmetric: compatible(a, b) = compatible(b, a)*)
(* for all titles, here the titles in the store.                           *)
C5_Symmetric ==
    \A a, b \in Range(events) :
        areTitlesCompatible(a.title, b.title) = areTitlesCompatible(b.title, a.title)

(* C6: isOverlapping(a, b, U) is true iff the ranges overlap (inclusive),  *)
(* the participant sets without U intersect, and the titles are compatible *)
(* in both directions; here for the events a user's query returns.         *)
C6_OverlapPredicate ==
    \A userId \in Users :
        LET evs == Range(loadEventsInvolving(events, userId))
        IN  \A a, b \in evs :
                isOverlapping(a, b, userId) =
                    ( /\ TimeOverlap(a, b)
                      /\ ShareOtherThan(a, b, userId)
                      /\ CompatibleBothWays(a, b) )

(* C7: when the events of U are two non-canceled events that share a       *)
(* participant other than U, have compatible titles and touch (the end of  *)
(* one is the start of the other), mergeAll(U) merges them into one event  *)
(* from the earlier start to the later end.                                *)
TouchingPair(rows, userId) ==
    /\ userId \in Users
    /\ Cardinality(StoredEventsOf(rows, userId)) = 2
    /\ \E a, b \in NotCanceledOf(rows, userId) :
           /\ a.id # b.id
           /\ a.endTime = b.startTime
           /\ ShareOtherThan(a, b, userId)
           /\ CompatibleBothWays(a, b)

C7_TouchingMerged ==
    \A c \in Calls : (Active(c) /\ TouchingPair(mc[c].pre, mc[c].userId)) =>
        /\ mc[c].error = ""
        /\ GroupIds(c) = IdsOf(mc[c].pre) \cap
                            {e.id : e \in StoredEventsOf(mc[c].pre, mc[c].userId)}
        /\ Succeeded(c) =>
              /\ MergedRow(c).startTime =
                    MinOf({e.startTime : e \in StoredEventsOf(mc[c].pre, mc[c].userId)})
              /\ MergedRow(c).endTime =
                    MaxOf({e.endTime : e \in StoredEventsOf(mc[c].pre, mc[c].userId)})

(* C8: when U has at least two non-canceled events and no two of them      *)
(* share a participant other than U, mergeAll(U) fails with 'No overlapping*)
(* events found to merge' and merges nothing.                              *)
OnlySelfShared(rows, userId) ==
    /\ userId \in Users
    /\ Cardinality(NotCanceledOf(rows, userId)) >= 2
    /\ \A a, b \in NotCanceledOf(rows, userId) :
           a.id # b.id => ~ShareOtherThan(a, b, userId)

C8_OnlySelfSharedFails ==
    \A c \in Calls : (Active(c) /\ OnlySelfShared(mc[c].pre, mc[c].userId)) =>
        /\ Failed(c)
        /\ mc[c].error = "No overlapping events found"
        /\ events = mc[c].pre
        /\ auditLogs = mc[c].preAudit

\* such a failure for two events that overlap in time and have compatible titles
C8_Witness ==
    /\ Failed(1)
    /\ OnlySelfShared(mc[1].pre, mc[1].userId)
    /\ \E a, b \in NotCanceledOf(mc[1].pre, mc[1].userId) :
           a.id # b.id /\ TimeOverlap(a, b) /\ CompatibleBothWays(a, b)

(* C9: mergeAll fails with the first cause that applies, in the order      *)
(* NotFound, fewer than 2 events, fewer than 2 non-canceled events, no     *)
(* group of size >= 2; such a failure inserts, changes and deletes no      *)
(* event and creates no AuditLog.                                          *)
NoPairOverlaps(rows, userId) ==
    LET m == mergeableEvents(loadEventsInvolving(rows, userId))
    IN  \A i, j \in DOMAIN m : i < j => ~isOverlapping(m[i], m[j], userId)

FirstCause(rows, userId) ==
    IF userId \notin Users THEN "NotFound"
    ELSE IF Cardinality(StoredEventsOf(rows, userId)) < 2
         THEN "Need at least 2 events"
    ELSE IF Cardinality(NotCanceledOf(rows, userId)) < 2
         THEN "Need at least 2 non-canceled events"
    ELSE IF NoPairOverlaps(rows, userId) THEN "No overlapping events found"
    ELSE ""

C9_FirstCauseWins ==
    \A c \in Calls : Active(c) =>
        /\ mc[c].error = FirstCause(mc[c].pre, mc[c].userId)
        /\ Failed(c) <=> mc[c].error # ""
        /\ Failed(c) => /\ events = mc[c].pre
                        /\ auditLogs = mc[c].preAudit
                        /\ mc[c].mergedId = 0
                        /\ mc[c].auditId = 0

\* the third cause, for a user who has two events
C9_Witness ==
    /\ Failed(1)
    /\ mc[1].error = "Need at least 2 non-canceled events"
    /\ Cardinality(StoredEventsOf(mc[1].pre, mc[1].userId)) >= 2

(* C10: no CANCELED event is consumed by mergeAll: none is a member of the *)
(* merged group, in mergedFrom or mergedEventIds, or deleted by the merge, *)
(* and none links members: each member overlaps an earlier member of the   *)
(* group directly.                                                         *)
CanceledIds(rows) == {e.id : e \in {x \in Range(rows) : x.status = CANCELED}}

C10_CanceledNeverConsumed ==
    \A c \in Calls : (Active(c) /\ ~Failed(c)) =>
        LET canceled == CanceledIds(mc[c].pre)
            g == mc[c].group
        IN  /\ GroupIds(c) \cap canceled = {}
            /\ \A k \in DOMAIN g : g[k].status # CANCELED
            /\ \A k \in 2..Len(g) :
                   \E j \in 1..(k - 1) : isOverlapping(g[j], g[k], mc[c].userId)
            /\ canceled \subseteq IdsOf(events)
            /\ mc[c].mergedId # 0 =>
                   \A e \in Range(events) :
                       e.id = mc[c].mergedId => Range(e.mergedFrom) \cap canceled = {}
            /\ \A i \in DOMAIN auditLogs :
                   auditLogs[i].id = mc[c].auditId =>
                       Range(auditLogs[i].mergedEventIds) \cap canceled = {}

\* a merge next to a CANCELED event that overlaps a member of the group
C10_Witness ==
    /\ Succeeded(1)
    /\ \E x \in StoredEventsOf(mc[1].pre, mc[1].userId) :
           /\ x.status = CANCELED
           /\ \E m \in Range(mc[1].group) : isOverlapping(m, x, mc[1].userId)
           /\ x \in Range(events)

(* C11: mergeAll merges a group of maximum size among the groups the       *)
(* grouper returns, and among several groups of that size the first one in *)
(* grouper output order.                                                   *)
GrouperOutput(c) ==
    groupOverlappingEvents(
        mergeableEvents(loadEventsInvolving(mc[c].pre, mc[c].userId)), mc[c].userId)

C11_LargestFirst ==
    \A c \in Calls : (Active(c) /\ mc[c].error = "") =>
        LET groups == GrouperOutput(c)
        IN  \E k \in DOMAIN groups :
                /\ mc[c].group = groups[k]
                /\ \A j \in DOMAIN groups : Len(groups[j]) <= Len(groups[k])
                /\ \A j \in 1..(k - 1) : Len(groups[j]) < Len(groups[k])

\* a merge that chose the first of two groups of the same size
C11_Witness ==
    /\ Succeeded(1)
    /\ Len(GrouperOutput(1)) >= 2
    /\ Len(GrouperOutput(1)[1]) = Len(GrouperOutput(1)[2])
    /\ mc[1].group = GrouperOutput(1)[1]

\* a merge that chose a later group because it is larger than the first
C11_LaterLargerChosen ==
    /\ Succeeded(1)
    /\ Len(GrouperOutput(1)) >= 2
    /\ Len(GrouperOutput(1)[1]) < Len(GrouperOutput(1)[2])
    /\ mc[1].group = GrouperOutput(1)[2]

(* C12: the merged event's status is the status of highest priority among *)
(* the members of the selected group, in the order COMPLETED > IN_PROGRESS *)
(* > TODO > CANCELED; no member has a strictly higher one.                 *)
HighestStatusOf(statuses) ==
    IF COMPLETED \in statuses THEN COMPLETED
    ELSE IF IN_PROGRESS \in statuses THEN IN_PROGRESS
    ELSE IF TODO \in statuses THEN TODO
    ELSE CANCELED

C12_StatusPriority ==
    \A c \in Calls : Succeeded(c) =>
        LET statuses == {e.status : e \in Range(mc[c].group)}
        IN  /\ MergedRow(c).status = HighestStatusOf(statuses)
            /\ \A s \in statuses :
                   statusPriority(s) <= statusPriority(MergedRow(c).status)

\* a merge of an IN_PROGRESS event that starts first and a COMPLETED one
C12_Witness ==
    /\ Succeeded(1)
    /\ MergedRow(1).status = COMPLETED
    /\ \E a, b \in Range(mc[1].group) :
           /\ a.status = IN_PROGRESS
           /\ b.status = COMPLETED
           /\ a.startTime < b.startTime

(* C13: the merged event's creator is the creator of the earliest-starting *)
(* group member; its invitees never contain that creator and, as a set,    *)
(* are all creators and invitees of the group members (the stored events   *)
(* the merge deleted) without that creator.  Invitees are a set of user    *)
(* ids here, as in the Map keyed by id that collects them.                 *)
MembersOf(c) == RowsOf(mc[c].pre, GroupIds(c))

C13_CreatorAndInvitees ==
    \A c \in Calls : Succeeded(c) =>
        LET members == MembersOf(c)
            earliest == MinOf({e.startTime : e \in members})
            merged == MergedRow(c)
        IN  /\ \E e \in members : e.startTime = earliest /\ merged.creator = e.creator
            /\ merged.creator \notin merged.invitees
            /\ merged.invitees =
                   UNION {Participants(e) : e \in members} \ {merged.creator}

(* C14: mergedFrom lists the ids of the group members in ascending         *)
(* startTime order, members with equal startTime in their order in the     *)
(* group; the merged title is the members' titles joined with ' | ' in     *)
(* that order, an empty title giving an empty segment.                     *)
RECURSIVE TitlesJoined(_, _)
\* the titles with the separator word between neighbours, from index i on
TitlesJoined(titles, i) ==
    IF i > Len(titles) THEN <<>>
    ELSE titles[i] \o (IF i < Len(titles) THEN <<"|">> ELSE <<>>)
                   \o TitlesJoined(titles, i + 1)

PositionIn(group, id) == CHOOSE k \in DOMAIN group : group[k].id = id
SeparatorsIn(title) == Cardinality({i \in DOMAIN title : title[i] = "|"})

C14_MergedFromAndTitleOrder ==
    \A c \in Calls : Succeeded(c) =>
        LET g == mc[c].group
            mf == MergedRow(c).mergedFrom
            member(i) == g[PositionIn(g, mf[i])]
        IN  /\ Len(mf) = Len(g)
            /\ Range(mf) = GroupIds(c)
            /\ \A i, j \in DOMAIN mf : i < j =>
                   \/ member(i).startTime < member(j).startTime
                   \/ /\ member(i).startTime = member(j).startTime
                      /\ PositionIn(g, mf[i]) < PositionIn(g, mf[j])
            /\ MergedRow(c).title =
                   TitlesJoined([i \in DOMAIN mf |-> member(i).title], 1)
            /\ (\A k \in DOMAIN g : SeparatorsIn(g[k].title) = 0) =>
                   SeparatorsIn(MergedRow(c).title) = Len(mf) - 1

\* a merge of a group that was not in start order, with an empty title in it
C14_Witness ==
    /\ Succeeded(1)
    /\ Len(mc[1].group) = 3
    /\ mc[1].group[1].startTime > mc[1].group[2].startTime
    /\ \E k \in DOMAIN mc[1].group : mc[1].group[k].title = <<>>
    /\ \E a, b \in Range(mc[1].group) :
           a.id # b.id /\ a.startTime = b.startTime /\ a.title # b.title

(* C15: a summarizer failure never fails the merge: when the synchronous   *)
(* summarizer throws, or none is configured, mergeAll still returns the    *)
(* merged event and the AuditLog notes are 'Merged N overlapping events',  *)
(* N the number of members of the merged group.                            *)
AuditLogOf(c) == CHOOSE a \in Range(auditLogs) : a.id = mc[c].auditId

C15_SummarizerFailureTolerated ==
    \A c \in Calls : mc[c].summary \in {"summarizerThrew", "noSummarizer"} =>
        /\ Succeeded(c)
        /\ mc[c].mergedId \in IdsOf(events)
        /\ \E a \in Range(auditLogs) : a.id = mc[c].auditId
        /\ AuditLogOf(c).notes = FallbackNote(Len(MergedRow(c).mergedFrom))
        /\ Len(MergedRow(c).mergedFrom) = Len(mc[c].group)

\* the synchronous summarizer threw in a merge of three events
C15_Witness ==
    /\ Succeeded(1)
    /\ mc[1].summary = "summarizerThrew"
    /\ Len(mc[1].group) = 3
    /\ AuditLogOf(1).notes = FallbackNote(3)

(* C16: the notes of an AuditLog are written at most once after the       *)
(* initial null, over the whole life of the merge including the summary    *)
(* job and its retries: once notes is non-null it never changes again.     *)
C16_NotesWrittenOnce ==
    [][\A i \in DOMAIN auditLogs :
           auditLogs[i].notes # Null =>
               /\ i \in DOMAIN auditLogs'
               /\ auditLogs'[i].notes = auditLogs[i].notes]_vars

(* C17: when mergeAll returns successfully, the AuditLog of that merge has *)
(* non-null notes in every configuration: no summarizer, synchronous       *)
(* summarizer only, summarizer plus async queue.                           *)
C17_NotesAtReturn ==
    \A c \in Calls : Succeeded(c) => AuditLogOf(c).notes # Null

(* C17 as amended: when mergeAll returns successfully and did not hand the *)
(* summary to the queue (no summarizer, synchronous summarizer only, or    *)
(* the enqueue failed), the AuditLog has non-null notes; when the queue    *)
(* accepted the job, notes stay null until the worker has run the job.     *)
JobNotStarted(c) ==
    \E job \in jobs : job.auditLogId = mc[c].auditId /\ job.attemptsMade = 0

C17_NotesAtReturnUnlessQueued ==
    \A c \in Calls : Succeeded(c) =>
        /\ mc[c].summary # "enqueued" => AuditLogOf(c).notes # Null
        /\ (mc[c].summary = "enqueued" /\ JobNotStarted(c)) =>
               AuditLogOf(c).notes = Null

\* a successful call in the async configuration whose enqueue failed
C17_Witness ==
    /\ Succeeded(1)
    /\ config = "async"
    /\ mc[1].summary = "enqueueThrew"
    /\ AuditLogOf(1).notes = FallbackNote(2)

\* a successful call whose job the queue accepted and the worker has not run
C17_QueuedNotStarted ==
    /\ Succeeded(1)
    /\ mc[1].summary = "enqueued"
    /\ JobNotStarted(1)
    /\ AuditLogOf(1).notes = Null

(* C18: when the queue is configured and the enqueue of the summary job    *)
(* fails, mergeAll falls back to a call of the synchronous summarizer and  *)
(* stores its result in notes; the fallback text is written only if that   *)
(* call fails too.  A call records in `summary` the one summarizing step   *)
(* it took: after "enqueueThrew" no summarizer call was made, so none      *)
(* failed, and the claim requires the summarizer's text.                   *)
SummarizerCalled(c) == mc[c].summary \in {"summarized", "summarizerThrew"}

C18_EnqueueFailureFallsBackToSync ==
    \A c \in Calls : (Succeeded(c) /\ mc[c].summary = "enqueueThrew") =>
        \/ AuditLogOf(c).notes = AiSummary
        \/ /\ SummarizerCalled(c)
           /\ AuditLogOf(c).notes = FallbackNote(Len(mc[c].group))

(* C19: every successful mergeAll(U) creates exactly one AuditLog, created *)
(* with notes = null, userId = U, newEventId = the id of the inserted      *)
(* merged event and mergedEventIds = the ids of the deleted group members, *)
(* each once (the ids of mergedFrom); a failed mergeAll creates none; no   *)
(* operation deletes an AuditLog.                                          *)
WithoutNotes(a) == [a EXCEPT !.notes = Null]

\* at the end of a call: the audit rows it added since it began
AuditAtEnd ==
    \A c \in Calls :
        /\ Failed(c) => Len(auditLogs) = Len(mc[c].preAudit)
        /\ Succeeded(c) =>
              /\ Len(auditLogs) = Len(mc[c].preAudit) + 1
              /\ LET a == auditLogs[Len(auditLogs)]
                 IN  /\ a.id = mc[c].auditId
                     /\ a.userId = mc[c].userId
                     /\ a.newEventId = mc[c].mergedId
                     /\ a.newEventId \in IdsOf(events)
                     /\ Range(a.mergedEventIds) = GroupIds(c)
                     /\ Len(a.mergedEventIds) = Cardinality(GroupIds(c))
                     /\ Range(a.mergedEventIds) = Range(MergedRow(c).mergedFrom)
                     /\ Range(a.mergedEventIds) \subseteq IdsOf(mc[c].pre)
                     /\ Range(a.mergedEventIds) \cap IdsOf(events) = {}

\* in a step: rows stay (only notes may change); a new row is born with null notes
AuditStep ==
    /\ \A i \in DOMAIN auditLogs :
           /\ i \in DOMAIN auditLogs'
           /\ WithoutNotes(auditLogs'[i]) = WithoutNotes(auditLogs[i])
    /\ Len(auditLogs') <= Len(auditLogs) + 1
    /\ Len(auditLogs') = Len(auditLogs) + 1 =>
           /\ auditLogs'[Len(auditLogs')].notes = Null
           /\ \A i \in DOMAIN auditLogs :
                  auditLogs[i].id # auditLogs'[Len(auditLogs')].id

C19_OneAuditLogPerMerge == [][AuditStep /\ AuditAtEnd']_vars

\* a successful merge by a user who is not the creator of the merged event
C19_Witness ==
    /\ Succeeded(1)
    /\ MergedRow(1).creator # mc[1].userId
    /\ Len(auditLogs) = Len(mc[1].preAudit) + 1
    /\ auditLogs[Len(auditLogs)].userId = mc[1].userId

(* C20: after any sequence of create, batchCreate, update and mergeAll     *)
(* calls every stored event has startTime < endTime; a create, batchCreate *)
(* or update whose resulting time range would not is rejected with         *)
(* BadRequest (its users and its event existing), update comparing a       *)
(* single supplied bound with the stored other bound.                      *)
BadRange(e) == e.startTime >= e.endTime
UsersExist(dto) == dto.creatorId \in Users /\ Range(dto.inviteeIds) \subseteq Users

C20_StartBeforeEnd ==
    /\ \A e \in Range(events) : e.startTime < e.endTime
    /\ \A dto \in Inputs(scenario) :
           (BadRange(dto) /\ dto.creatorId \in Users) => CreateError(dto) = "BadRequest"
    /\ \A batch \in Batches(scenario) :
           ( /\ \E i \in DOMAIN batch : BadRange(batch[i])
             /\ \A i \in DOMAIN batch : UsersExist(batch[i]) )
               => BatchCreateError(batch) = "BadRequest"
    /\ \A e \in Range(events), dto \in Updates :
           BadRange(Updated(e, dto)) => UpdateError(events, e.id, dto) = "BadRequest"

\* an event whose range an update has set, next to one for which an update
\* that supplies only startTime is rejected against the stored endTime
C20_Witness ==
    \E a, b \in Range(events) :
        /\ a.id # b.id
        /\ a.startTime = 0 /\ a.endTime = 2 /\ a.mergedFrom = <<>>
        /\ \E dto \in Updates :
               /\ dto.has = {"startTime"}
               /\ dto.startTime >= b.endTime
               /\ UpdateError(events, b.id, dto) = "BadRequest"

(* C21: after any sequence of create, batchCreate, update and mergeAll     *)
(* calls no stored event has its creator among its invitees, and a payload *)
(* that repeats an invitee id stores the id once or is rejected; a create, *)
(* batchCreate or update that lists the creator as invitee is rejected     *)
(* with BadRequest (its users and its event existing).                     *)
RepeatsInvitee(inviteeIds) == Cardinality(Range(inviteeIds)) # Len(inviteeIds)

C21_CreatorNeverInvited ==
    /\ \A e \in Range(events) : e.creator \notin e.invitees
    /\ \A dto \in Inputs(scenario) :
           /\ (CreateCreatorInvited(dto) /\ dto.creatorId \in Users)
                  => CreateError(dto) = "BadRequest"
           /\ RepeatsInvitee(dto.inviteeIds) => CreateError(dto) # ""
    /\ \A batch \in Batches(scenario) :
           ( /\ \E i \in DOMAIN batch : CreateCreatorInvited(batch[i])
             /\ \A i \in DOMAIN batch : UsersExist(batch[i]) )
               => BatchCreateError(batch) = "BadRequest"
    /\ \A e \in Range(events), dto \in Updates :
           /\ ("inviteeIds" \in dto.has /\ e.creator \in Range(dto.inviteeIds))
                  => UpdateError(events, e.id, dto) = "BadRequest"
           /\ ("inviteeIds" \in dto.has /\ RepeatsInvitee(dto.inviteeIds))
                  => UpdateError(events, e.id, dto) # ""

\* a merged event next to an event whose invitees an update has replaced, for
\* which an update that invites its creator is rejected
C21_Witness ==
    \E a, b \in Range(events) :
        /\ a.mergedFrom # <<>>
        /\ b.mergedFrom = <<>> /\ b.invitees = {"u3"}
        /\ \E dto \in Updates :
               /\ "inviteeIds" \in dto.has
               /\ b.creator \in Range(dto.inviteeIds)
               /\ UpdateError(events, b.id, dto) = "BadRequest"

(* C22: batchCreate is all-or-nothing: an empty batch or one of more than  *)
(* 500 events is rejected with BadRequest before a transaction is opened;  *)
(* once the transaction is started every failure rolls back, never         *)
(* commits, and stores none of the batch, while success commits all of it; *)
(* the query runner is released on every path, and commit and rollback     *)
(* never both happen in one call.                                          *)
C22_BatchAllOrNothing ==
    bc.pc # "idle" =>
        /\ (bc.size = 0 \/ bc.size > BatchLimit) =>
               bc.error = "BadRequest" /\ ~bc.connected /\ ~bc.started
        /\ (bc.started /\ bc.error # "") =>
               bc.rolledBack /\ ~bc.committed /\ bc.stored = 0
        /\ bc.error = "" => bc.committed /\ bc.stored = bc.size
        /\ bc.connected => bc.released
        /\ ~(bc.committed /\ bc.rolledBack)

(* C23: findConflicts(U) returns exactly the events involving U that       *)
(* satisfy the pairwise overlap predicate (ranges overlap, a participant   *)
(* other than U is shared, titles compatible) with at least one other      *)
(* event involving U, each once, the empty list when no pair overlaps; it  *)
(* fails with NotFound when U does not exist and changes nothing.          *)
MayMerge(a, b, userId) ==
    TimeOverlap(a, b) /\ ShareOtherThan(a, b, userId) /\ CompatibleBothWays(a, b)

ConflictingIds(rows, userId) ==
    {a.id : a \in {e \in StoredEventsOf(rows, userId) :
                      \E o \in StoredEventsOf(rows, userId) :
                          o.id # e.id /\ MayMerge(e, o, userId)}}

C23_FindConflictsExact ==
    fc.pc # "idle" =>
        /\ events = fc.pre
        /\ fc.userId \notin Users => fc.error = "NotFound"
        /\ fc.userId \in Users =>
               /\ fc.error = ""
               /\ IdsOf(fc.conflicts) = ConflictingIds(events, fc.userId)
               /\ Cardinality(IdsOf(fc.conflicts)) = Len(fc.conflicts)

(* C24: grouping computes the transitive closure of the pairwise           *)
(* predicate: if A mayMerge B and B mayMerge C, then A, B and C are in one *)
(* group, also when A and C fail the pairwise test, wherever A, B and C    *)
(* stand in the list given to the grouper.                                 *)
GrouperInput(c) == mergeableEvents(loadEventsInvolving(mc[c].pre, mc[c].userId))
\* the call has just applied the grouper to its list
Grouped(c) ==
    \/ mc[c].pc = "saveEvent"
    \/ mc[c].pc = "failed" /\ mc[c].error = "No overlapping events found"

\* the pairs of different events of a list that may merge, in either direction
Adjacent(evs, userId) ==
    LET half == {p \in evs \X evs :
                    /\ p[1].id < p[2].id
                    /\ MayMerge(p[1], p[2], userId) \/ MayMerge(p[2], p[1], userId)}
    IN  half \cup {<<p[2], p[1]>> : p \in half}

C24_TransitiveClosure ==
    \A c \in Calls : Grouped(c) =>
        LET groups == GrouperOutput(c)
            members == {Range(groups[k]) : k \in DOMAIN groups}
            adj == Adjacent(Range(GrouperInput(c)), mc[c].userId)
        IN  \A ab, bc2 \in adj :
                ab[2] = bc2[1] =>
                    \E g \in members : {ab[1], ab[2], bc2[2]} \subseteq g

\* a list in which the bridge B stands after A and C, A and C failing the
\* pairwise test, grouped together
C24_Witness ==
    /\ Grouped(1)
    /\ LET evs == GrouperInput(1)
       IN  \E i, j, k \in DOMAIN evs :
               /\ i < k /\ j < k /\ i # j
               /\ MayMerge(evs[i], evs[k], mc[1].userId)
               /\ MayMerge(evs[k], evs[j], mc[1].userId)
               /\ ~isOverlapping(evs[i], evs[j], mc[1].userId)
               /\ ~isOverlapping(evs[j], evs[i], mc[1].userId)
               /\ {evs[i], evs[j], evs[k]} \subseteq Range(mc[1].group)

(* C25: the groups groupOverlappingEvents returns are pairwise disjoint,   *)
(* each has at least two events, and each is maximal: no event outside a   *)
(* group mayMerge (in either direction) with a member of it, and every     *)
(* event that mayMerge with another event is in some group.                *)
C25_DisjointMaximalGroups ==
    \A c \in Calls : Grouped(c) =>
        LET groups == GrouperOutput(c)
            members == {Range(groups[k]) : k \in DOMAIN groups}
            adj == Adjacent(Range(GrouperInput(c)), mc[c].userId)
        IN  /\ \A k \in DOMAIN groups :
                   /\ Len(groups[k]) >= 2
                   /\ Cardinality(IdsOf(groups[k])) = Len(groups[k])
            /\ \A j, k \in DOMAIN groups :
                   j # k => IdsOf(groups[j]) \cap IdsOf(groups[k]) = {}
            /\ \A g \in members, p \in adj :
                   (p[1] \in g) = (p[2] \in g)
            /\ \A p \in adj : \E g \in members : p[1] \in g

\* the grouper has returned two groups, of two and of three events
C25_Witness ==
    /\ Grouped(1)
    /\ Len(GrouperOutput(1)) = 2
    /\ {Len(GrouperOutput(1)[1]), Len(GrouperOutput(1)[2])} = {2, 3}

\* the grouper has returned a group and left an event of the list outside it
C25_EventLeftOutside ==
    /\ Grouped(1)
    /\ Len(GrouperOutput(1)) = 1
    /\ Len(GrouperOutput(1)[1]) < Len(GrouperInput(1))

(* C26: the result of grouping does not depend on the order of the list:   *)
(* every permutation of the list yields the same set of groups (as sets of *)
(* event ids), so mergeAll finds a group for one order iff for every order.*)
Reorderings(evs) ==
    {[i \in DOMAIN evs |-> evs[f[i]]] : f \in Permutations(DOMAIN evs)}

GroupSets(groups) == {IdsOf(groups[k]) : k \in DOMAIN groups}

C26_OrderIndependent ==
    \A c \in Calls : Grouped(c) =>
        \A evs \in Reorderings(GrouperInput(c)) :
            GroupSets(groupOverlappingEvents(evs, mc[c].userId))
                = GroupSets(GrouperOutput(c))

(* C27: under two interleaved mergeAll invocations every source event is   *)
(* consumed by at most one merge: no event id is in the mergedFrom of two  *)
(* different merged events or in the mergedEventIds of two different       *)
(* AuditLogs (as it is after the two calls in either serial order).        *)
C27_ConsumedOnce ==
    /\ \A a, b \in Range(events) :
           a.id # b.id => Range(a.mergedFrom) \cap Range(b.mergedFrom) = {}
    /\ \A i, j \in DOMAIN auditLogs :
           i # j => Range(auditLogs[i].mergedEventIds)
                        \cap Range(auditLogs[j].mergedEventIds) = {}

(* C28: no participant of a source event is lost by a merge: the           *)
(* participants of the merged event (creator and invitees) are the union   *)
(* of the stored participants of the deleted source events, also when U is *)
(* only an invitee of a source event, and U is one of them.                *)
C28_NoParticipantLost ==
    \A c \in Calls : Succeeded(c) =>
        /\ Participants(MergedRow(c)) =
               UNION {Participants(e) : e \in MembersOf(c)}
        /\ mc[c].userId \in Participants(MergedRow(c))

(* C29: with the queue injected, once the summary job of a merge has been  *)
(* accepted and the worker eventually runs, the notes of the merge's       *)
(* AuditLog eventually become non-null: the summary when the summarizer    *)
(* answers, otherwise 'Merged N overlapping events' with N the number of   *)
(* events in the job payload; the worker works from the payload alone, the *)
(* source events being deleted from the store by then.                     *)
AuditIds == 1..(3 * MaxEvents)
NotesOf(id) == {auditLogs[i].notes : i \in {j \in DOMAIN auditLogs : auditLogs[j].id = id}}
Accepted(id) == \E job \in jobs : job.auditLogId = id /\ job.attemptsMade = 0
Noted(id) == NotesOf(id) # {} /\ Null \notin NotesOf(id)

\* what the worker has written for the jobs it still holds, and from what
NotesFromPayload ==
    \A job \in jobs :
        /\ job.attemptsMade = 0 => NotesOf(job.auditLogId) = {Null}
        /\ job.attemptsMade > 0 =>
               NotesOf(job.auditLogId) = {FallbackNote(Len(job.eventData))}
        /\ mc[1].pc \in {"idle", "done"} => IdsOf(job.eventData) \cap IdsOf(events) = {}

NotesAreSummaryOrFallback ==
    \A i \in DOMAIN auditLogs :
        auditLogs[i].notes \in
            {Null, AiSummary, FallbackNote(Len(auditLogs[i].mergedEventIds))}

C29_NotesEventuallyWritten ==
    /\ [](NotesFromPayload /\ NotesAreSummaryOrFallback)
    /\ \A id \in AuditIds : Accepted(id) ~> Noted(id)

\* the worker has failed every attempt of a job and the fallback note stands,
\* next to a note the worker wrote from the summarizer's answer
C29_Witness ==
    /\ \E job \in jobs :
           /\ job.attemptsMade = Attempts
           /\ NotesOf(job.auditLogId) = {FallbackNote(Len(job.eventData))}
    /\ \E i \in DOMAIN auditLogs : auditLogs[i].notes = AiSummary

(* C30: each successful mergeAll(U) strictly decreases the number of       *)
(* stored events, and of stored events involving U, by the size of the     *)
(* merged group minus 1, which is at least 1; so the successful merges are *)
(* fewer than the events created, a user with fewer than two events is     *)
(* refused with a validation error, and a refused call leaves the store as *)
(* it was (the next call is refused again).                                *)
ValidationErrors ==
    {"Need at least 2 events", "Need at least 2 non-canceled events",
     "No overlapping events found"}

C30_MergesTerminate ==
    /\ \A c \in Calls : Succeeded(c) =>
           LET less == Len(mc[c].group) - 1
           IN  /\ less >= 1
               /\ Len(events) = Len(mc[c].pre) - less
               /\ Cardinality(StoredEventsOf(events, mc[c].userId)) =
                      Cardinality(StoredEventsOf(mc[c].pre, mc[c].userId)) - less
    /\ \A c \in Calls : Failed(c) =>
           /\ events = mc[c].pre
           /\ mc[c].userId \in Users => mc[c].error \in ValidationErrors
    /\ \A c \in Calls :
           ( /\ Active(c) /\ mc[c].userId \in Users
             /\ Cardinality(StoredEventsOf(mc[c].pre, mc[c].userId)) < 2 )
               => mc[c].error = "Need at least 2 events"
    /\ Quiet => (auditLogs = <<>> \/ Len(auditLogs) <= created - 1)

\* a second successful merge whose group holds the event the first one made
C30_Witness ==
    /\ Succeeded(1)
    /\ Len(auditLogs) = 2
    /\ \E e \in Range(mc[1].group) : e.mergedFrom # <<>>

=============================================================================
